---- MODULE Spec2Model ----
(***************************************************************************)
(* Rate-limit connection wrappers of limiter/wrapper/conn.go:              *)
(*   serverConn  - stream wrapper (Read / Write, staging buffer rbuf)      *)
(*   packetConn  - datagram wrapper (ReadFrom / WriteTo)                   *)
(*   udpConn     - datagram wrapper bridging optional UDP capabilities     *)
(* The Limiter and the RateLimiter are external: a Wait(n) grants any      *)
(* number in 0..n, and In/Out resolve a host key to a limiter or to nil.   *)
(***************************************************************************)
EXTENDS Integers, Sequences, FiniteSets, TLC

\* ---------------------------------------------------------------- bounds
\* bytes the peer of the stream connection sends in the concurrent model
StreamLen == 3
\* largest caller buffer handed to serverConn.Read in the concurrent model
MaxBuf == 2
\* longest buffer handed to serverConn.Write
MaxWrite == 2
\* zero grants the egress limiter may give in a row of one Write call
MaxZero == 1
\* bytes the peer sends, and largest Read buffer, in the pacing model
PaceLen == 12
\* datagrams the underlying packet connection yields in all
MaxDgrams == 2
\* bytes the peer sends while the RateLimiter changes
DynLen == 2
\* longest buffer handed to serverConn.Write in the termination model
TermLen == 4

Min(a, b) == IF a < b THEN a ELSE b

\* ------------------------------------------------------------- addresses
Hosts == {"10.0.0.1", "10.0.0.2"}

\* net.Addr.String(): "host:port", as a sequence of tokens
AddrString(a) == <<a.host, ":", a.port>>

RECURSIVE LastColon(_, _)
LastColon(s, i) ==
    IF i = 0 THEN 0
    ELSE IF s[i] = ":" THEN i ELSE LastColon(s, i - 1)

\* host, _, _ := net.SplitHostPort(s): the part before the last colon, and
\* "" when the address has no port (the error is ignored by every caller)
SplitHostPort(s) ==
    LET i == LastColon(s, Len(s))
    IN  IF i = 2 THEN s[1] ELSE ""

\* ------------------------------------------------------------- variables
VARIABLES
    rlimiter,   \* the RateLimiter handed to the constructors: "nil" or "rl"
    rlIn,       \* host keys for which RateLimiter.In returns a limiter
    rlOut,      \* host keys for which RateLimiter.Out returns a limiter
    sconn,      \* what WrapConn returned: the raw conn or a serverConn
    rbuf,       \* serverConn.rbuf, the staging buffer
    consumed,   \* bytes read so far from the underlying stream connection
    delivered,  \* bytes handed so far to the caller of Read
    inGranted,  \* bytes granted so far by the Wait calls of Read
    slen,       \* number of bytes the peer sends in all
    maxb,       \* largest buffer the caller of Read uses
    R,          \* frame of the flow calling Read
    W,          \* frame of the flow calling Write
    scen,       \* monitor of the first Read calls of a behaviour
    ctor,       \* the constructor called on the packet connection
    pconn,      \* what that constructor returned
    arrived,    \* datagrams read so far from the underlying packet connection
    returned,   \* datagrams handed so far to the caller of a datagram read
    discarded,  \* ids of the datagrams a datagram read discarded
    erred,      \* whether an underlying datagram read has failed so far
    P,          \* frame of the flow calling ReadFrom / ReadFromUDP / ReadMsgUDP
    last        \* the last datagram write or bridged operation, and its result

svars == <<rbuf, consumed, delivered, inGranted, slen, maxb, R, W, scen>>

dvars == <<arrived, returned, discarded, erred, P, last>>

vars == <<rlimiter, rlIn, rlOut, sconn, ctor, pconn, svars, dvars>>

\* ------------------------------------------------------------ stream side
\* the raw stream connection, with the address of its peer
RawConn(a) == [type |-> "netConn", remote |-> a]

\* faulty variant: wraps also for a nil RateLimiter
MutWrapConn(rl, c) ==
    [type |-> "serverConn", Conn |-> c, rlimiter |-> rl,
     raddr |-> SplitHostPort(AddrString(c.remote))]

WrapConn(rl, c) ==
    IF rl = "nil" THEN c
    ELSE [type |-> "serverConn", Conn |-> c, rlimiter |-> rl,
          raddr |-> SplitHostPort(AddrString(c.remote))]

RIdle ==
    [pc |-> "idle", blen |-> 0, b |-> <<>>, nn |-> 0, n |-> 0, err |-> "nil",
     limiter |-> FALSE, req |-> 0, grant |-> 0, waits |-> 0, ios |-> 0,
     rbuf0 |-> <<>>, un |-> 0, uerr |-> "nil"]

WIdle ==
    [pc |-> "idle", orig |-> <<>>, b |-> <<>>, nn |-> 0, n |-> 0, err |-> "nil",
     limiter |-> FALSE, grant |-> 0, waits |-> 0, zeros |-> 0, ios |-> 0,
     issued |-> <<>>, accepted |-> <<>>, un |-> 0, uerr |-> "nil",
     req |-> 0, gsum |-> 0]

\* the bytes the peer sends are numbered, so that a lost, doubled or moved
\* byte shows in the sequences
PeerBytes(from, k) == [i \in 1..k |-> from + i]

\* c.rlimiter == nil || c.rlimiter.In(c.raddr) == nil
NoIngress == sconn.rlimiter = "nil" \/ sconn.raddr \notin rlIn
NoEgress == sconn.rlimiter = "nil" \/ sconn.raddr \notin rlOut

\* the caller enters Read with a buffer of blen bytes
ReadCall ==
    /\ R.pc = "idle"
    /\ \E blen \in 0..maxb :
         R' = [RIdle EXCEPT !.pc = IF sconn.type = "serverConn" THEN "chk" ELSE "raw",
                            !.blen = blen, !.rbuf0 = rbuf]
    /\ UNCHANGED <<rlimiter, rlIn, rlOut, sconn, ctor, pconn, dvars, inGranted, rbuf, consumed, delivered, slen, maxb, W, scen>>

\* c.Conn.Read(b): some of the peer's next bytes, with or without an error
ConnRead(next) ==
    \E k \in 0..Min(R.blen, slen - Len(consumed)), e \in {"nil", "err"} :
        /\ consumed' = consumed \o PeerBytes(Len(consumed), k)
        /\ R' = [R EXCEPT !.pc = next[e], !.b = PeerBytes(Len(consumed), k),
                          !.nn = k, !.n = IF next[e] = "ret" THEN k ELSE 0,
                          !.err = e, !.ios = @ + 1, !.un = k, !.uerr = e]

\* Read on the connection WrapConn returned unwrapped
ReadRaw ==
    /\ R.pc = "raw"
    /\ ConnRead([e \in {"nil", "err"} |-> "ret"])
    /\ UNCHANGED <<rlimiter, rlIn, rlOut, sconn, ctor, pconn, dvars, inGranted, rbuf, delivered, slen, maxb, W, scen>>

\* faulty variant: the In(c.raddr) == nil check is missing
MutReadCheck ==
    /\ R.pc = "chk"
    /\ R' = [R EXCEPT !.pc = IF sconn.rlimiter = "nil" THEN "fast" ELSE "get"]
    /\ UNCHANGED <<rlimiter, rlIn, rlOut, sconn, ctor, pconn, dvars, inGranted, rbuf, consumed, delivered, slen, maxb, W, scen>>

\* lines 41-44: the nil checks
ReadCheck ==
    /\ R.pc = "chk"
    /\ R' = [R EXCEPT !.pc = IF NoIngress THEN "fast" ELSE "get"]
    /\ UNCHANGED <<rlimiter, rlIn, rlOut, sconn, ctor, pconn, dvars, inGranted, rbuf, consumed, delivered, slen, maxb, W, scen>>

\* line 43: return c.Conn.Read(b)
ReadFast ==
    /\ R.pc = "fast"
    /\ ConnRead([e \in {"nil", "err"} |-> "ret"])
    /\ UNCHANGED <<rlimiter, rlIn, rlOut, sconn, ctor, pconn, dvars, inGranted, rbuf, delivered, slen, maxb, W, scen>>

\* lines 46-48: the second lookup, then the branch on the staging buffer
ReadLookup ==
    /\ R.pc = "get"
    /\ R' = [R EXCEPT !.limiter = sconn.raddr \in rlIn,
                      !.pc = IF Len(rbuf) > 0 THEN "swait" ELSE "net"]
    /\ UNCHANGED <<rlimiter, rlIn, rlOut, sconn, ctor, pconn, dvars, inGranted, rbuf, consumed, delivered, slen, maxb, W, scen>>

\* lines 49-53: burst := min(len(b), c.rbuf.Len()); lim := limiter.Wait(burst)
ReadStagedWait ==
    /\ R.pc = "swait"
    /\ IF ~R.limiter
       THEN /\ R' = [R EXCEPT !.pc = "panic"]
            /\ inGranted' = inGranted
       ELSE LET burst == Min(R.blen, Len(rbuf))
            IN  \E lim \in 0..burst :
                  /\ R' = [R EXCEPT !.pc = "sread", !.req = burst, !.grant = lim,
                                    !.waits = @ + 1]
                  /\ inGranted' = inGranted + lim
    /\ UNCHANGED <<rlimiter, rlIn, rlOut, sconn, ctor, pconn, dvars, rbuf, consumed, delivered, slen, maxb, W, scen>>

\* bytes.Buffer.Read(p) on a non-empty buffer: copies min(len(p), Len) bytes
\* faulty variant: the read offset of the buffer does not advance
MutBufferRead(buf, lim) ==
    [out |-> SubSeq(buf, 1, Min(lim, Len(buf))), rest |-> buf]

BufferRead(buf, lim) ==
    [out |-> SubSeq(buf, 1, Min(lim, Len(buf))),
     rest |-> SubSeq(buf, Min(lim, Len(buf)) + 1, Len(buf))]

\* line 54: return c.rbuf.Read(b[:lim])
ReadStaged ==
    /\ R.pc = "sread"
    /\ LET r == BufferRead(rbuf, R.grant)
       IN  /\ rbuf' = r.rest
           /\ R' = [R EXCEPT !.pc = "ret", !.b = r.out, !.n = Len(r.out), !.err = "nil"]
    /\ UNCHANGED <<rlimiter, rlIn, rlOut, sconn, ctor, pconn, dvars, inGranted, consumed, delivered, slen, maxb, W, scen>>

\* faulty variant: the error of the underlying Read is not tested before Wait
MutReadNet ==
    /\ R.pc = "net"
    /\ ConnRead([e \in {"nil", "err"} |-> "nwait"])
    /\ UNCHANGED <<rlimiter, rlIn, rlOut, sconn, ctor, pconn, dvars, inGranted, rbuf, delivered, slen, maxb, W, scen>>

\* lines 57-60: nn, err := c.Conn.Read(b); an error returns (nn, err)
ReadNet ==
    /\ R.pc = "net"
    /\ ConnRead([e \in {"nil", "err"} |-> IF e = "nil" THEN "nwait" ELSE "ret"])
    /\ UNCHANGED <<rlimiter, rlIn, rlOut, sconn, ctor, pconn, dvars, inGranted, rbuf, delivered, slen, maxb, W, scen>>

\* line 62: n = limiter.Wait(nn)
ReadNetWait ==
    /\ R.pc = "nwait"
    /\ IF ~R.limiter
       THEN /\ R' = [R EXCEPT !.pc = "panic"]
            /\ inGranted' = inGranted
       ELSE \E g \in 0..R.nn :
              /\ R' = [R EXCEPT !.pc = IF g < R.nn THEN "stage" ELSE "ret",
                                !.req = R.nn, !.grant = g, !.n = g, !.waits = @ + 1]
              /\ inGranted' = inGranted + g
    /\ UNCHANGED <<rlimiter, rlIn, rlOut, sconn, ctor, pconn, dvars, rbuf, consumed, delivered, slen, maxb, W, scen>>

\* faulty variant: stages b[n+1:nn], losing a byte
MutStaged(b, n, nn) == SubSeq(b, n + 2, nn)

\* b[n:nn], the bytes read and not granted
Staged(b, n, nn) == SubSeq(b, n + 1, nn)

\* lines 63-67: c.rbuf.Write(b[n:nn]); bytes.Buffer.Write returns no error
ReadStage ==
    /\ R.pc = "stage"
    /\ rbuf' = rbuf \o Staged(R.b, R.n, R.nn)
    /\ R' = [R EXCEPT !.pc = "ret"]
    /\ UNCHANGED <<rlimiter, rlIn, rlOut, sconn, ctor, pconn, dvars, inGranted, consumed, delivered, slen, maxb, W, scen>>

\* whether the call that returns kept to the scenario: a caller buffer of 12
\* bytes, network reads that give all the peer has sent without an error,
\* and grants of min(5, n)
ScenStep ==
    /\ sconn.type = "serverConn" /\ sconn.rlimiter # "nil" /\ sconn.raddr \in rlIn
    /\ slen = 12
    /\ R.blen = 12
    /\ R.waits > 0 => R.grant = Min(5, R.req)
    /\ R.ios > 0 => (R.uerr = "nil" /\ Len(consumed) = Min(slen, Len(R.rbuf0) + Len(delivered) + R.blen))

\* the call returns (n, err); the caller takes b[:n]
ReadReturn ==
    /\ R.pc = "ret"
    /\ delivered' = delivered \o SubSeq(R.b, 1, R.n)
    /\ R' = [R EXCEPT !.pc = "idle"]
    /\ scen' = IF scen.live /\ Len(scen.res) < 3 /\ ScenStep
               THEN [scen EXCEPT !.res = Append(@, [n |-> R.n, err |-> R.err,
                                                    staged |-> Len(rbuf)])]
               ELSE IF scen.live /\ Len(scen.res) < 3
                    THEN [live |-> FALSE, res |-> <<>>]
                    ELSE scen
    /\ UNCHANGED <<rlimiter, rlIn, rlOut, sconn, ctor, pconn, dvars, inGranted, rbuf, consumed, slen, maxb, W>>

ReadFlow ==
    \/ ReadCall
    \/ ReadRaw
    \/ ReadCheck
    \/ ReadFast
    \/ ReadLookup
    \/ ReadStagedWait
    \/ ReadStaged
    \/ ReadNet
    \/ ReadNetWait
    \/ ReadStage
    \/ ReadReturn

\* the caller enters Write with a buffer of len bytes, len at most max
WriteEnter(max) ==
    /\ W.pc = "idle"
    /\ \E len \in 0..max :
         W' = [WIdle EXCEPT !.pc = IF sconn.type = "serverConn" THEN "chk" ELSE "raw",
                            !.orig = [i \in 1..len |-> i], !.b = [i \in 1..len |-> i]]
    /\ UNCHANGED <<rlimiter, rlIn, rlOut, sconn, ctor, pconn, dvars, inGranted, rbuf, consumed, delivered, slen, maxb, R, scen>>

WriteCall == WriteEnter(MaxWrite)

\* the same with the longer buffers of the termination model
WriteCallLong == WriteEnter(TermLen)

\* c.Conn.Write(p): all of p, or a prefix of p together with an error
ConnWrite(p, next) ==
    \E e \in {"nil", "err"} :
      \E k \in (IF e = "nil" THEN {Len(p)} ELSE 0..Len(p)) :
        W' = [W EXCEPT !.pc = next[e], !.nn = k, !.n = @ + k, !.err = e,
                       !.b = IF e = "nil" THEN SubSeq(@, k + 1, Len(@)) ELSE @,
                       !.ios = @ + 1, !.un = k, !.uerr = e,
                       !.issued = Append(@, p),
                       !.accepted = @ \o SubSeq(p, 1, k)]

\* Write on the connection WrapConn returned unwrapped
WriteRaw ==
    /\ W.pc = "raw"
    /\ ConnWrite(W.b, [e \in {"nil", "err"} |-> "ret"])
    /\ UNCHANGED <<rlimiter, rlIn, rlOut, sconn, ctor, pconn, dvars, inGranted, rbuf, consumed, delivered, slen, maxb, R, scen>>

\* lines 73-76: the nil checks
WriteCheck ==
    /\ W.pc = "chk"
    /\ W' = [W EXCEPT !.pc = IF NoEgress THEN "fast" ELSE "get"]
    /\ UNCHANGED <<rlimiter, rlIn, rlOut, sconn, ctor, pconn, dvars, inGranted, rbuf, consumed, delivered, slen, maxb, R, scen>>

\* line 75: return c.Conn.Write(b)
WriteFast ==
    /\ W.pc = "fast"
    /\ ConnWrite(W.b, [e \in {"nil", "err"} |-> "ret"])
    /\ UNCHANGED <<rlimiter, rlIn, rlOut, sconn, ctor, pconn, dvars, inGranted, rbuf, consumed, delivered, slen, maxb, R, scen>>

\* lines 78-80: the second lookup, then the loop test
WriteLookup ==
    /\ W.pc = "get"
    /\ W' = [W EXCEPT !.limiter = sconn.raddr \in rlOut,
                      !.pc = IF Len(W.b) > 0 THEN "wait" ELSE "ret"]
    /\ UNCHANGED <<rlimiter, rlIn, rlOut, sconn, ctor, pconn, dvars, inGranted, rbuf, consumed, delivered, slen, maxb, R, scen>>

\* line 81, the argument: limiter.Wait(len(b)), which grants at least
\* `least` bytes
LimiterWait(least) ==
    /\ W.pc = "wait"
    /\ IF ~W.limiter
       THEN W' = [W EXCEPT !.pc = "panic"]
       ELSE \E g \in least..Len(W.b) :
              W' = [W EXCEPT !.pc = "write", !.grant = g, !.waits = @ + 1,
                             !.zeros = IF g = 0 THEN @ + 1 ELSE 0,
                             !.req = Len(W.b), !.gsum = @ + g]
    /\ UNCHANGED <<rlimiter, rlIn, rlOut, sconn, ctor, pconn, dvars, inGranted, rbuf, consumed, delivered, slen, maxb, R, scen>>

\* a limiter that may grant nothing, MaxZero times in a row
WriteWait == LimiterWait(IF W.zeros < MaxZero THEN 0 ELSE 1)

\* a limiter that grants at least one byte of every non-zero request
WriteWaitSome == LimiterWait(1)

\* faulty variant: the loop has no test of len(b)
MutAfterWriteLoop(e, rest) == IF e # "nil" THEN "ret" ELSE "wait"

\* faulty variant: the loop goes on after a write error
MutAfterWrite(e, rest) == IF rest > 0 THEN "wait" ELSE "ret"

\* lines 83-87 and the loop test: where the loop goes after a write that
\* returned e and left rest bytes of the buffer
AfterWrite(e, rest) ==
    IF e # "nil" THEN "ret"
    ELSE IF rest > 0 THEN "wait" ELSE "ret"

\* faulty variant: b[:granted+1], one byte more than was granted
MutChunk(b, granted) == SubSeq(b, 1, Min(granted + 1, Len(b)))

\* line 81: b[:granted], the argument of the underlying Write
Chunk(b, granted) == SubSeq(b, 1, granted)

\* lines 81-87: nn, err = c.Conn.Write(b[:granted]); n += nn; b = b[nn:]
WriteChunk ==
    /\ W.pc = "write"
    /\ LET p == Chunk(W.b, W.grant)
       IN  ConnWrite(p, [e \in {"nil", "err"} |-> AfterWrite(e, Len(W.b) - Len(p))])
    /\ UNCHANGED <<rlimiter, rlIn, rlOut, sconn, ctor, pconn, dvars, inGranted, rbuf, consumed, delivered, slen, maxb, R, scen>>

\* faulty variant: Write resets the staging buffer before it returns
MutWriteReturn ==
    /\ W.pc = "ret"
    /\ W' = [W EXCEPT !.pc = "idle"]
    /\ rbuf' = <<>>
    /\ UNCHANGED <<rlimiter, rlIn, rlOut, sconn, ctor, pconn, dvars, inGranted, consumed, delivered, slen, maxb, R, scen>>

\* the call returns (n, err)
WriteReturn ==
    /\ W.pc = "ret"
    /\ W' = [W EXCEPT !.pc = "idle"]
    /\ UNCHANGED <<rlimiter, rlIn, rlOut, sconn, ctor, pconn, dvars, inGranted, rbuf, consumed, delivered, slen, maxb, R, scen>>

WriteFlow ==
    \/ WriteCall
    \/ WriteRaw
    \/ WriteCheck
    \/ WriteFast
    \/ WriteLookup
    \/ WriteWait
    \/ WriteChunk
    \/ WriteReturn

\* ---------------------------------------------------------- datagram side
\* the optional interfaces an underlying packet connection may implement
AllCaps ==
    {"SetBuffer", "Reader", "Writer", "ReadUDP", "WriteUDP", "SyscallConn",
     "RemoteAddr", "SetDSCP"}

\* the raw packet connection, with the optional interfaces it implements
RawPacketConn(caps) == [type |-> "netPacketConn", caps |-> caps]

\* faulty variant: wraps also for a nil RateLimiter
MutWrapPacketConn(rl, pc) ==
    [type |-> "packetConn", PacketConn |-> pc, rlimiter |-> rl]

WrapPacketConn(rl, pc) ==
    IF rl = "nil" THEN pc
    ELSE [type |-> "packetConn", PacketConn |-> pc, rlimiter |-> rl]

WrapUDPConn(rl, pc) ==
    [type |-> "udpConn", PacketConn |-> pc, rlimiter |-> rl]

\* the interfaces of the connection under the wrapper
Caps == IF pconn.type = "netPacketConn" THEN pconn.caps ELSE pconn.PacketConn.caps

\* the RateLimiter field of the wrapper
PRlimiter == IF pconn.type = "netPacketConn" THEN "nil" ELSE pconn.rlimiter

NoAddr == [host |-> "", port |-> ""]
NoDgram == [id |-> 0, addr |-> NoAddr, size |-> 0]

PIdle ==
    [pc |-> "idle", op |-> "", d |-> NoDgram, n |-> 0, err |-> "nil", host |-> "",
     limiter |-> FALSE, grant |-> 0, short |-> FALSE, waits |-> 0, ios |-> 0,
     disc |-> 0]

LNone ==
    [op |-> "", addr |-> NoAddr, len |-> 0, waits |-> 0, short |-> FALSE,
     ios |-> 0, wlen |-> 0, n |-> 0, err |-> "nil", un |-> 0, uerr |-> "nil"]

\* the datagram reads and writes the object has
ReadOps ==
    IF pconn.type = "udpConn" THEN {"ReadFrom", "ReadFromUDP", "ReadMsgUDP"}
    ELSE {"ReadFrom"}
WriteOps ==
    IF pconn.type = "udpConn" THEN {"WriteTo", "WriteToUDP", "WriteMsgUDP"}
    ELSE {"WriteTo"}

\* sizes of the datagrams on the wire
DgSizes == {0, 50, 100}
\* lengths of the datagrams the caller writes
WriteSizes == {0, 2}
\* where datagrams come from and go to: two ports of one host, and another host
DgAddrs ==
    {[host |-> "10.0.0.1", port |-> "4000"], [host |-> "10.0.0.1", port |-> "5000"],
     [host |-> "10.0.0.2", port |-> "4000"]}

\* the caller enters a datagram read
DgramReadCall ==
    /\ P.pc = "idle"
    /\ \E op \in ReadOps :
         P' = [PIdle EXCEPT !.op = op,
                            !.pc = IF pconn.type = "netPacketConn" THEN "raw"
                                   ELSE IF op = "ReadFrom" THEN "read" ELSE "probe"]
    /\ UNCHANGED <<rlimiter, rlIn, rlOut, sconn, ctor, pconn, svars, arrived, returned, discarded, erred, last>>

\* faulty variant: after the probe the UDP-typed read is passed through,
\* without the limiter loop
MutDgramProbe ==
    /\ P.pc = "probe"
    /\ P' = IF "ReadUDP" \in Caps
            THEN [P EXCEPT !.pc = "raw"]
            ELSE [P EXCEPT !.pc = "ret", !.err = "unsupported"]
    /\ UNCHANGED <<rlimiter, rlIn, rlOut, sconn, ctor, pconn, svars, arrived, returned, discarded, erred, last>>

\* lines 216 and 241: nc, ok := c.PacketConn.(udp.ReadUDP)
DgramProbe ==
    /\ P.pc = "probe"
    /\ P' = IF "ReadUDP" \in Caps
            THEN [P EXCEPT !.pc = "read"]
            ELSE [P EXCEPT !.pc = "ret", !.err = "unsupported"]
    /\ UNCHANGED <<rlimiter, rlIn, rlOut, sconn, ctor, pconn, svars, arrived, returned, discarded, erred, last>>

\* the underlying ReadFrom / ReadFromUDP / ReadMsgUDP: the next datagram on
\* the wire, or an error
PacketRead(next) ==
    \/ /\ Len(arrived) < MaxDgrams
       /\ \E a \in DgAddrs, size \in DgSizes :
            LET d == [id |-> Len(arrived) + 1, addr |-> a, size |-> size]
            IN  /\ arrived' = Append(arrived, d)
                /\ erred' = erred
                /\ P' = [P EXCEPT !.pc = next, !.d = d, !.n = size, !.err = "nil",
                                  !.grant = 0, !.short = FALSE, !.ios = @ + 1]
    \/ /\ arrived' = arrived
       /\ erred' = TRUE
       /\ P' = [P EXCEPT !.pc = "ret", !.d = NoDgram, !.n = 0, !.err = "err",
                         !.grant = 0, !.short = FALSE, !.ios = @ + 1]

\* ReadFrom on the connection WrapPacketConn returned unwrapped
DgramReadRaw ==
    /\ P.pc = "raw"
    /\ PacketRead("ret")
    /\ UNCHANGED <<rlimiter, rlIn, rlOut, sconn, ctor, pconn, svars, returned, discarded, last>>

\* lines 118-121, 197-200, 218-221, 243-246: one underlying read
DgramRead ==
    /\ P.pc = "read"
    /\ PacketRead("chk")
    /\ UNCHANGED <<rlimiter, rlIn, rlOut, sconn, ctor, pconn, svars, returned, discarded, last>>

\* faulty variant: every datagram is keyed by one fixed host
MutDgramCheck ==
    /\ P.pc = "chk"
    /\ P' = [P EXCEPT !.host = "10.0.0.1",
                      !.pc = IF PRlimiter = "nil" \/ "10.0.0.1" \notin rlIn
                             THEN "ret" ELSE "get"]
    /\ UNCHANGED <<rlimiter, rlIn, rlOut, sconn, ctor, pconn, svars, arrived, returned, discarded, erred, last>>

\* lines 123-127: host from the source address, then the nil checks
DgramCheck ==
    /\ P.pc = "chk"
    /\ LET host == SplitHostPort(AddrString(P.d.addr))
       IN  P' = [P EXCEPT !.host = host,
                          !.pc = IF PRlimiter = "nil" \/ host \notin rlIn
                                 THEN "ret" ELSE "get"]
    /\ UNCHANGED <<rlimiter, rlIn, rlOut, sconn, ctor, pconn, svars, arrived, returned, discarded, erred, last>>

\* line 129: limiter := c.rlimiter.In(host)
DgramLookup ==
    /\ P.pc = "get"
    /\ P' = [P EXCEPT !.limiter = P.host \in rlIn, !.pc = "wait"]
    /\ UNCHANGED <<rlimiter, rlIn, rlOut, sconn, ctor, pconn, svars, arrived, returned, discarded, erred, last>>

\* faulty variant: only a grant of zero discards, a partial grant returns
MutDiscard(granted, n) == granted = 0

\* line 131: limiter.Wait(ctx, n) < n
Discard(granted, n) == granted < n

\* faulty variant: a datagram granted short ends the call (return for continue)
MutDgramWait ==
    /\ P.pc = "wait"
    /\ IF ~P.limiter
       THEN /\ P' = [P EXCEPT !.pc = "panic"]
            /\ discarded' = discarded
       ELSE \E g \in 0..P.n :
              IF Discard(g, P.n)
              THEN /\ P' = [P EXCEPT !.pc = "ret", !.short = g < P.n,
                                     !.waits = @ + 1, !.disc = @ + 1]
                   /\ discarded' = discarded \cup {P.d.id}
              ELSE /\ P' = [P EXCEPT !.pc = "ret", !.grant = g, !.short = g < P.n,
                                     !.waits = @ + 1]
                   /\ discarded' = discarded
    /\ UNCHANGED <<rlimiter, rlIn, rlOut, sconn, ctor, pconn, svars, arrived, returned, erred, last>>

\* lines 131-135: discard and read the next datagram, or return this one
DgramWait ==
    /\ P.pc = "wait"
    /\ IF ~P.limiter
       THEN /\ P' = [P EXCEPT !.pc = "panic"]
            /\ discarded' = discarded
       ELSE \E g \in 0..P.n :
              IF Discard(g, P.n)
              THEN /\ P' = [P EXCEPT !.pc = "read", !.short = g < P.n,
                                     !.waits = @ + 1, !.disc = @ + 1]
                   /\ discarded' = discarded \cup {P.d.id}
              ELSE /\ P' = [P EXCEPT !.pc = "ret", !.grant = g, !.short = g < P.n,
                                     !.waits = @ + 1]
                   /\ discarded' = discarded
    /\ UNCHANGED <<rlimiter, rlIn, rlOut, sconn, ctor, pconn, svars, arrived, returned, erred, last>>

\* the call returns (n, addr, err)
DgramReturn ==
    /\ P.pc = "ret"
    /\ P' = PIdle
    /\ returned' = IF P.err = "nil"
                   THEN Append(returned, [id |-> P.d.id, addr |-> P.d.addr,
                                          size |-> P.n, grant |-> P.grant])
                   ELSE returned
    /\ UNCHANGED <<rlimiter, rlIn, rlOut, sconn, ctor, pconn, svars, arrived, discarded, erred, last>>

\* the underlying WriteTo / WriteToUDP / WriteMsgUDP of a datagram of len
\* bytes: sent whole, or an error and nothing sent
PacketWrite(op, addr, len, waits, short) ==
    \E e \in {"nil", "err"} :
      LET k == IF e = "nil" THEN len ELSE 0
      IN  last' = [op |-> op, addr |-> addr, len |-> len, waits |-> waits,
                   short |-> short, ios |-> 1, wlen |-> len, n |-> k, err |-> e,
                   un |-> k, uerr |-> e]

\* faulty variant: a short grant does not drop the datagram
MutDrop(granted, len) == FALSE

\* lines 144, 279, 294, 313: limiter.Wait(ctx, len(p)) < len(p)
Drop(granted, len) == granted < len


\* lines 150, 285, 300-305, 319-324: the write that follows the limiter
AfterLimiter(op, addr, len, waits, short) ==
    IF op = "WriteTo" \/ "WriteUDP" \in Caps
    THEN PacketWrite(op, addr, len, waits, short)
    ELSE last' = [LNone EXCEPT !.op = op, !.addr = addr, !.len = len,
                               !.waits = waits, !.short = short,
                               !.err = "unsupported"]

\* lines 139-151, 274-325: WriteTo, WriteToUDP and WriteMsgUDP
DgramWrite ==
    /\ P.pc = "idle"
    /\ \E op \in WriteOps, addr \in DgAddrs, len \in WriteSizes :
         IF pconn.type = "netPacketConn"
         THEN PacketWrite(op, addr, len, 0, FALSE)
         ELSE IF PRlimiter # "nil" /\ SplitHostPort(AddrString(addr)) \in rlOut
              THEN \E g \in 0..len :
                     IF Drop(g, len)
                     THEN last' = [LNone EXCEPT !.op = op, !.addr = addr, !.len = len,
                                                !.waits = 1, !.short = TRUE, !.n = len]
                     ELSE AfterLimiter(op, addr, len, 1, g < len)
              ELSE AfterLimiter(op, addr, len, 0, FALSE)
    /\ P' = [PIdle EXCEPT !.pc = "op"]
    /\ UNCHANGED <<rlimiter, rlIn, rlOut, sconn, ctor, pconn, svars, arrived, returned, discarded, erred>>

\* the bridged operations and the interface each one probes
BridgeOps ==
    {"SetReadBuffer", "SetWriteBuffer", "Read", "Write", "SyscallConn",
     "RemoteAddr", "SetDSCP"}

CapOf(op) ==
    CASE op \in {"SetReadBuffer", "SetWriteBuffer"} -> "SetBuffer"
      [] op = "Read" -> "Reader"
      [] op = "Write" -> "Writer"
      [] op \in {"ReadFromUDP", "ReadMsgUDP"} -> "ReadUDP"
      [] op \in {"WriteToUDP", "WriteMsgUDP"} -> "WriteUDP"
      [] OTHER -> op

\* what a bridged operation returns when the interface is absent
Absent(op) == IF op \in {"RemoteAddr", "SetDSCP"} THEN "nil" ELSE "unsupported"

\* lines 165-193, 265-272, 327-340: the bridged operations of udpConn
DgramBridge ==
    /\ P.pc = "idle"
    /\ pconn.type = "udpConn"
    /\ \E op \in BridgeOps :
         IF CapOf(op) \in Caps
         THEN \E e \in {"nil", "err"} :
                last' = [LNone EXCEPT !.op = op, !.ios = 1, !.err = e, !.uerr = e]
         ELSE last' = [LNone EXCEPT !.op = op, !.err = Absent(op)]
    /\ P' = [PIdle EXCEPT !.pc = "op"]
    /\ UNCHANGED <<rlimiter, rlIn, rlOut, sconn, ctor, pconn, svars, arrived, returned, discarded, erred>>

\* the write or bridged operation returns last.n and last.err
DgramOpReturn ==
    /\ P.pc = "op"
    /\ P' = PIdle
    /\ last' = LNone
    /\ UNCHANGED <<rlimiter, rlIn, rlOut, sconn, ctor, pconn, svars, arrived, returned, discarded, erred>>

DgramFlow ==
    \/ DgramReadCall
    \/ DgramProbe
    \/ DgramReadRaw
    \/ DgramRead
    \/ DgramCheck
    \/ DgramLookup
    \/ DgramWait
    \/ DgramReturn
    \/ DgramWrite
    \/ DgramBridge
    \/ DgramOpReturn

\* the peer of the stream connection
StreamPeer == [host |-> "10.0.0.1", port |-> "4000"]

\* a stream connection wrapped at accept time, nothing read or written yet
InitStream ==
    /\ rlimiter \in {"nil", "rl"}
    /\ rlIn \in IF rlimiter = "nil" THEN {{}} ELSE {{"10.0.0.2"}, {"10.0.0.1"}}
    /\ rlOut \in IF rlimiter = "nil" THEN {{}} ELSE {{"10.0.0.2"}, {"10.0.0.1"}}
    /\ sconn = WrapConn(rlimiter, RawConn(StreamPeer))
    /\ rbuf = <<>>
    /\ consumed = <<>>
    /\ delivered = <<>>
    /\ inGranted = 0
    /\ R = RIdle
    /\ W = WIdle

\* a packet connection wrapped at accept time, nothing read or written yet
InitDgram ==
    /\ ctor \in {"WrapPacketConn", "WrapUDPConn"}
    /\ \E caps \in IF ctor = "WrapPacketConn" THEN {AllCaps} ELSE {{}, AllCaps} :
         pconn = IF ctor = "WrapPacketConn"
                 THEN WrapPacketConn(rlimiter, RawPacketConn(caps))
                 ELSE WrapUDPConn(rlimiter, RawPacketConn(caps))
    /\ arrived = <<>>
    /\ returned = <<>>
    /\ discarded = {}
    /\ erred = FALSE
    /\ P = PIdle
    /\ last = LNone

\* the packet connection left alone
IdleDgram ==
    /\ ctor = "WrapPacketConn"
    /\ pconn = WrapPacketConn(rlimiter, RawPacketConn(AllCaps))
    /\ arrived = <<>>
    /\ returned = <<>>
    /\ discarded = {}
    /\ erred = FALSE
    /\ P = PIdle
    /\ last = LNone

Init ==
    /\ InitStream
    /\ IdleDgram
    /\ slen = StreamLen
    /\ maxb = MaxBuf
    /\ scen = [live |-> FALSE, res |-> <<>>]

\* one flow of control in Read and another in Write, on one serverConn
Next == ReadFlow \/ WriteFlow

Spec == Init /\ [][Next]_vars

\* the stream wrapper with a single flow calling Read, a 12-byte transfer
InitPace ==
    /\ InitStream
    /\ IdleDgram
    /\ rlOut = rlIn
    /\ slen = PaceLen
    /\ maxb = PaceLen
    /\ scen = [live |-> TRUE, res |-> <<>>]

NextPace == ReadFlow

SpecPace == InitPace /\ [][NextPace]_vars

\* a datagram wrapper driven by one flow; the stream connection is left alone
InitPacket ==
    /\ rlimiter \in {"nil", "rl"}
    /\ rlIn \in IF rlimiter = "nil" THEN {{}} ELSE {{}, {"10.0.0.1"}, Hosts}
    /\ rlOut = rlIn \cap {"10.0.0.1"}
    /\ sconn = WrapConn(rlimiter, RawConn(StreamPeer))
    /\ rbuf = <<>>
    /\ consumed = <<>>
    /\ delivered = <<>>
    /\ inGranted = 0
    /\ R = RIdle
    /\ W = WIdle
    /\ slen = 0
    /\ maxb = 0
    /\ scen = [live |-> FALSE, res |-> <<>>]
    /\ InitDgram

NextPacket == DgramFlow

SpecPacket == InitPacket /\ [][NextPacket]_vars

\* RateLimiter.In(host) is a call into a table that other flows of the program
\* change: the entry of the peer's host appears or goes away
LimiterIn ==
    /\ rlimiter # "nil"
    /\ rlIn' = IF StreamPeer.host \in rlIn THEN rlIn \ {StreamPeer.host}
               ELSE rlIn \cup {StreamPeer.host}
    /\ UNCHANGED <<rlimiter, rlOut, sconn, ctor, pconn, svars, dvars>>

\* the same for RateLimiter.Out(host)
LimiterOut ==
    /\ rlimiter # "nil"
    /\ rlOut' = IF StreamPeer.host \in rlOut THEN rlOut \ {StreamPeer.host}
                ELSE rlOut \cup {StreamPeer.host}
    /\ UNCHANGED <<rlimiter, rlIn, sconn, ctor, pconn, svars, dvars>>

\* a serverConn whose RateLimiter changes while Read and Write run
InitDyn ==
    /\ InitStream
    /\ IdleDgram
    /\ rlimiter = "rl"
    /\ rlIn = {StreamPeer.host}
    /\ rlOut = {StreamPeer.host}
    /\ slen = DynLen
    /\ maxb = DynLen
    /\ scen = [live |-> FALSE, res |-> <<>>]

NextDyn ==
    \/ LimiterIn
    \/ LimiterOut
    \/ ReadCall
    \/ ReadCheck
    \/ ReadFast
    \/ ReadLookup
    \/ ReadStagedWait
    \/ ReadStaged
    \/ ReadNet
    \/ ReadNetWait
    \/ ReadStage
    \/ ReadReturn
    \/ WriteCall
    \/ WriteCheck
    \/ WriteFast
    \/ WriteLookup
    \/ WriteWait
    \/ WriteChunk
    \/ WriteReturn

SpecDyn == InitDyn /\ [][NextDyn]_vars

\* one flow calling Write on a host with an egress limiter that grants at
\* least one byte of every non-zero request
InitTerm ==
    /\ InitStream
    /\ IdleDgram
    /\ rlimiter = "rl"
    /\ rlIn = {StreamPeer.host}
    /\ rlOut = {StreamPeer.host}
    /\ slen = 0
    /\ maxb = 0
    /\ scen = [live |-> FALSE, res |-> <<>>]

\* the steps of a Write call once it is entered: Wait returns with its
\* grant, the underlying Write returns
WriteSteps ==
    \/ WriteCheck
    \/ WriteLookup
    \/ WriteWaitSome
    \/ WriteChunk
    \/ WriteReturn

NextTerm ==
    \/ WriteCallLong
    \/ WriteCheck
    \/ WriteLookup
    \/ WriteWaitSome
    \/ WriteChunk
    \/ WriteReturn

SpecTerm == InitTerm /\ [][NextTerm]_vars /\ WF_vars(WriteSteps)

\* a packetConn driven by one flow that calls ReadFrom
InitRecv ==
    /\ InitPacket
    /\ rlimiter = "rl"
    /\ ctor = "WrapPacketConn"

\* the steps of a ReadFrom call once it is entered; the underlying read
\* among them: the underlying connection yields
RecvSteps ==
    \/ DgramRead
    \/ DgramCheck
    \/ DgramLookup
    \/ DgramWait
    \/ DgramReturn

NextRecv ==
    \/ DgramReadCall
    \/ DgramRead
    \/ DgramCheck
    \/ DgramLookup
    \/ DgramWait
    \/ DgramReturn

SpecRecv == InitRecv /\ [][NextRecv]_vars /\ WF_vars(RecvSteps)

\* ------------------------------------------------------- stream properties
RECURSIVE Flatten(_)
Flatten(chunks) ==
    IF chunks = <<>> THEN <<>> ELSE Head(chunks) \o Flatten(Tail(chunks))

RECURSIVE SumLen(_)
SumLen(chunks) ==
    IF chunks = <<>> THEN 0 ELSE Len(Head(chunks)) + SumLen(Tail(chunks))

\* the wrapper is a serverConn whose host has an ingress / an egress limiter
InLimited ==
    sconn.type = "serverConn" /\ sconn.rlimiter # "nil" /\ sconn.raddr \in rlIn
OutLimited ==
    sconn.type = "serverConn" /\ sconn.rlimiter # "nil" /\ sconn.raddr \in rlOut
\* the wrapper is a serverConn whose host has no ingress / no egress limiter
InNil ==
    sconn.type = "serverConn" /\ (sconn.rlimiter = "nil" \/ sconn.raddr \notin rlIn)
OutNil ==
    sconn.type = "serverConn" /\ (sconn.rlimiter = "nil" \/ sconn.raddr \notin rlOut)

\* the bytes the last underlying Read of the call put into the caller's buffer
LastNetBytes == SubSeq(consumed, Len(consumed) - R.un + 1, Len(consumed))

\* C1: on a host with an ingress limiter, between Read calls, the bytes
\* delivered to the caller followed by the staged bytes are exactly the bytes
\* consumed from the underlying connection, in order.
StreamNoLoss ==
    (InLimited /\ R.pc = "idle") => delivered \o rbuf = consumed

\* C1 witness: bytes were staged, a part of them was delivered by later
\* calls, and a part is still staged
StreamNoLossWitness ==
    /\ InLimited
    /\ R.pc = "idle"
    /\ Len(delivered) >= 5
    /\ Len(rbuf) >= 3
    /\ Len(consumed) = PaceLen
    /\ delivered \o rbuf = consumed

\* C2: when In(host) is nil, Read is one underlying Read whose (n, err) and
\* bytes are returned unchanged, with no Wait and the staging buffer left
\* alone; when Out(host) is nil, Write is one underlying Write of the whole
\* buffer whose (n, err) is returned unchanged, with no Wait.
FastPath ==
    /\ InNil => /\ R.pc \in {"idle", "chk", "fast", "ret"}
                /\ R.waits = 0
                /\ rbuf = <<>>
                /\ R.pc = "ret" => /\ R.ios = 1
                                   /\ R.n = R.un
                                   /\ R.err = R.uerr
                                   /\ R.b = LastNetBytes
                                   /\ rbuf = R.rbuf0
    /\ OutNil => /\ W.pc \in {"idle", "chk", "fast", "ret"}
                 /\ W.waits = 0
                 /\ W.pc = "ret" => /\ W.ios = 1
                                    /\ W.issued = <<W.orig>>
                                    /\ W.n = W.un
                                    /\ W.err = W.uerr

\* C2 witness: both fast paths returned, the Read with bytes and the Write
\* with a partial count and an error
FastPathWitness ==
    /\ InNil
    /\ OutNil
    /\ sconn.rlimiter # "nil"
    /\ R.pc = "ret" /\ R.n = 2
    /\ W.pc = "ret" /\ W.err = "err" /\ W.n = 1 /\ Len(W.orig) = 2

\* C3: with an egress limiter, a Write that returns without an error has
\* issued underlying writes whose lengths sum to L and whose concatenation
\* is the buffer, and returns (L, nil); after an underlying write error
\* there is no further Wait or write, and the error is returned with the
\* number of bytes the underlying connection accepted.
WriteChunking ==
    OutLimited =>
        /\ W.pc \in {"wait", "write"} => W.uerr = "nil"
        /\ W.pc = "write" => W.grant <= Len(W.b)
        /\ W.pc # "idle" => /\ W.n = Len(W.accepted)
                            /\ W.accepted = SubSeq(W.orig, 1, Len(W.accepted))
        /\ (W.pc = "ret" /\ W.err = "nil") =>
              /\ W.n = Len(W.orig)
              /\ SumLen(W.issued) = Len(W.orig)
              /\ Flatten(W.issued) = W.orig
        /\ (W.pc = "ret" /\ W.err # "nil") =>
              /\ W.err = W.uerr
              /\ W.ios >= 1

\* C3 witness: a two-byte Write went out as a granted chunk of one byte, an
\* empty chunk after a zero grant, and a second chunk of one byte
WriteChunkingWitness ==
    /\ OutLimited
    /\ W.pc = "ret"
    /\ W.err = "nil"
    /\ W.n = 2
    /\ W.issued = <<<<1>>, <<>>, <<2>>>>

\* C8: under every interleaving of a Read flow and a Write flow, a step of
\* Write leaves the staging buffer and all of Read's state alone, the staging
\* buffer changes only in Read's buffer accesses, a step of Read leaves
\* Write's state alone, and each flow's results are those of its run alone
\* (Read loses no byte, Write's count is what the connection accepted).
ReadWriteIsolation ==
    [][ /\ (W' # W => UNCHANGED <<rbuf, R, consumed, delivered>>)
        /\ (R' # R => W' = W)
        /\ (rbuf' # rbuf => (R.pc \in {"sread", "stage"} /\ R' # R))
        /\ ((InLimited /\ R'.pc = "idle") => delivered' \o rbuf' = consumed')
        /\ (W'.pc = "ret" => W'.n = Len(W'.accepted))
        /\ UNCHANGED <<sconn, rlIn, rlOut>> ]_vars

\* C8 witness: Read is about to stage bytes while Write is between a grant
\* and its underlying write
ReadWriteIsolationWitness ==
    /\ R.pc = "stage"
    /\ Len(rbuf) = 0
    /\ W.pc = "write"
    /\ W.ios = 1

\* C9: on a limited host a successful Read returns the number of bytes
\* granted in that call, the request being min(len(b), staged) when bytes
\* were staged and the size of the network read otherwise, and the staging
\* buffer then holds the remainder; with grants of min(5, n), one network
\* read of 12 bytes and buffers of 12 bytes the first three calls return
\* (5, nil), (5, nil), (2, nil) and leave 7, 2 and 0 bytes staged.
ReadPacing ==
    /\ (InLimited /\ R.pc = "ret" /\ R.err = "nil") =>
          /\ R.waits = 1
          /\ R.n = R.grant
          /\ IF Len(R.rbuf0) > 0
             THEN /\ R.req = Min(R.blen, Len(R.rbuf0))
                  /\ R.ios = 0
                  /\ rbuf = SubSeq(R.rbuf0, R.grant + 1, Len(R.rbuf0))
             ELSE /\ R.req = R.un
                  /\ R.ios = 1
                  /\ rbuf = SubSeq(LastNetBytes, R.grant + 1, R.un)
    /\ (scen.live /\ Len(scen.res) = 3) =>
          scen.res = << [n |-> 5, err |-> "nil", staged |-> 7],
                        [n |-> 5, err |-> "nil", staged |-> 2],
                        [n |-> 2, err |-> "nil", staged |-> 0] >>

\* C9 witness: three calls of the scenario have returned
ReadPacingWitness ==
    /\ scen.live
    /\ Len(scen.res) = 3
    /\ R.pc = "idle"
    /\ Len(delivered) = 12

\* ----------------------------------------------------- datagram properties
\* whether the source / destination host of an address has a limiter
HasIn(addr) == rlimiter # "nil" /\ addr.host \in rlIn
HasOut(addr) == rlimiter # "nil" /\ addr.host \in rlOut

\* C4: packetConn.ReadFrom returns a datagram of a host with an ingress
\* limiter only when Wait(N) granted N; a datagram granted less is discarded,
\* is never returned, and the call goes on to the next underlying read.
DgramAtomicRead ==
    pconn.type = "packetConn" =>
        /\ \A i \in 1..Len(returned) :
              /\ HasIn(returned[i].addr) => returned[i].grant = returned[i].size
              /\ returned[i].id \notin discarded
        /\ (P.pc = "ret" /\ P.err = "nil") =>
              /\ P.d.id \notin discarded
              /\ HasIn(P.d.addr) => (P.waits >= 1 /\ P.grant = P.n /\ ~P.short)
        /\ (P.pc = "read" /\ P.waits > 0) =>
              (P.short /\ P.d.id \in discarded /\ P.ios = P.waits)
        /\ \A id \in discarded : id \in 1..Len(arrived)

\* C4 witness: a 100-byte datagram of a limited host was discarded and the
\* next datagram of that host, granted in full, is being returned
DgramAtomicReadWitness ==
    /\ pconn.type = "packetConn"
    /\ P.pc = "ret"
    /\ P.err = "nil"
    /\ discarded = {1}
    /\ arrived[1].size = 100
    /\ P.d.id = 2
    /\ P.n = 50
    /\ P.grant = 50
    /\ HasIn(P.d.addr)

\* C5: packetConn.WriteTo either hands the whole datagram to one underlying
\* WriteTo and returns its result, or writes nothing; it writes nothing
\* exactly when the destination host has an egress limiter that granted less
\* than len(p), and then returns (len(p), nil).
DgramAtomicWrite ==
    (pconn.type = "packetConn" /\ P.pc = "op" /\ last.op = "WriteTo") =>
        /\ last.ios \in {0, 1}
        /\ last.ios = 1 => /\ last.wlen = last.len
                           /\ last.n = last.un
                           /\ last.err = last.uerr
        /\ last.ios = 0 <=> (HasOut(last.addr) /\ last.short)
        /\ last.ios = 0 => (last.n = last.len /\ last.err = "nil")
        /\ last.waits = IF HasOut(last.addr) THEN 1 ELSE 0

\* C5 witness: a datagram to a limited host was dropped and reported sent
DgramAtomicWriteWitness ==
    /\ pconn.type = "packetConn"
    /\ P.pc = "op"
    /\ last.op = "WriteTo"
    /\ HasOut(last.addr)
    /\ last.short
    /\ last.ios = 0
    /\ last.n = 2
    /\ last.err = "nil"

\* the operations of udpConn with an unsupported-operation failure mode
ProbedOps ==
    {"SetReadBuffer", "SetWriteBuffer", "Read", "Write", "ReadFromUDP",
     "ReadMsgUDP", "WriteToUDP", "WriteMsgUDP", "SyscallConn"}

\* C6: a bridged operation of udpConn whose interface the underlying
\* connection lacks returns the unsupported-operation error in every limiter
\* state, with no underlying I/O and no reported success.
ProbeDeterminism ==
    pconn.type = "udpConn" =>
        /\ (P.pc = "op" /\ last.op \in ProbedOps /\ CapOf(last.op) \notin Caps) =>
              (last.err = "unsupported" /\ last.ios = 0 /\ last.n = 0)
        /\ (P.pc = "ret" /\ P.op \in ProbedOps /\ CapOf(P.op) \notin Caps) =>
              (P.err = "unsupported" /\ P.ios = 0 /\ P.n = 0)

\* C7: with a nil RateLimiter WrapConn and WrapPacketConn return their
\* argument, with a RateLimiter they return a wrapper around it; WrapUDPConn
\* always returns a wrapper, and a udpConn with a nil RateLimiter never calls
\* Wait, never discards a datagram it read and never drops one it is to send.
ConstructorFastPaths ==
    /\ rlimiter = "nil" => sconn = RawConn(StreamPeer)
    /\ rlimiter # "nil" => /\ sconn.type = "serverConn"
                           /\ sconn.Conn = RawConn(StreamPeer)
                           /\ sconn.rlimiter = rlimiter
                           /\ sconn.raddr = StreamPeer.host
    /\ (ctor = "WrapPacketConn" /\ rlimiter = "nil") => pconn.type = "netPacketConn"
    /\ (ctor = "WrapPacketConn" /\ rlimiter # "nil") =>
          /\ pconn.type = "packetConn"
          /\ pconn.PacketConn.type = "netPacketConn"
          /\ pconn.rlimiter = rlimiter
    /\ ctor = "WrapUDPConn" =>
          /\ pconn.type = "udpConn"
          /\ pconn.PacketConn.type = "netPacketConn"
          /\ pconn.rlimiter = rlimiter
    /\ (ctor = "WrapUDPConn" /\ rlimiter = "nil") =>
          /\ P.waits = 0
          /\ last.waits = 0
          /\ P.pc \notin {"get", "wait", "panic"}
          /\ discarded = {}
          /\ (P.pc = "op" /\ last.op \in {"WriteTo", "WriteToUDP", "WriteMsgUDP"}) =>
                (last.ios = 1 \/ last.err = "unsupported")
          /\ (P.pc = "ret" /\ P.err = "nil") => P.ios = 1

\* C7 witness: a udpConn built with a nil RateLimiter returns the second
\* datagram it read, after sending nothing short
ConstructorFastPathsWitness ==
    /\ ctor = "WrapUDPConn"
    /\ rlimiter = "nil"
    /\ P.pc = "ret"
    /\ P.op = "ReadMsgUDP"
    /\ P.err = "nil"
    /\ P.n = 100
    /\ Len(returned) = 1

\* C10: the datagrams packetConn.ReadFrom returns are a subsequence, in
\* arrival order, of the datagrams read from the underlying connection, and
\* a datagram is discarded only by the limiter of its own source host: one of
\* a host without a limiter, or granted in full, is returned. A 100-byte
\* datagram of 10.0.0.1 that is denied, followed by a 50-byte datagram of
\* 10.0.0.2 that is admitted, makes the first ReadFrom return the second.
DgramOrder ==
    pconn.type = "packetConn" =>
        /\ \A i \in 1..Len(returned) :
              /\ returned[i].id \in 1..Len(arrived)
              /\ arrived[returned[i].id].addr = returned[i].addr
              /\ arrived[returned[i].id].size = returned[i].size
              /\ \A j \in 1..Len(returned) : i < j => returned[i].id < returned[j].id
        /\ \A id \in discarded : HasIn(arrived[id].addr)
        /\ \A id \in 1..Len(arrived) :
              \/ id \in discarded
              \/ \E i \in 1..Len(returned) : returned[i].id = id
              \/ (P.d.id = id /\ P.pc \in {"chk", "get", "wait", "ret", "panic"})
        /\ (P.pc \in {"get", "wait"}) => P.host = P.d.addr.host
        /\ (P.pc = "read" /\ P.waits > 0) => P.short
        /\ ( /\ ~erred
             /\ Len(arrived) >= 2
             /\ arrived[1].size = 100 /\ arrived[1].addr.host = "10.0.0.1"
             /\ arrived[2].size = 50 /\ arrived[2].addr.host = "10.0.0.2"
             /\ 1 \in discarded
             /\ 2 \notin discarded
             /\ (P.pc = "ret" \/ Len(returned) > 0) ) =>
                 IF Len(returned) > 0
                 THEN returned[1].id = 2
                 ELSE P.d.id = 2 /\ P.n = 50 /\ P.d.addr.host = "10.0.0.2" /\ P.ios = 2

\* C10 witness: the scenario, with the second datagram handed to the caller
\* by the first call
DgramOrderWitness ==
    /\ pconn.type = "packetConn"
    /\ ~erred
    /\ P.pc = "idle"
    /\ Len(arrived) = 2
    /\ arrived[1].size = 100 /\ arrived[1].addr.host = "10.0.0.1"
    /\ arrived[2].size = 50 /\ arrived[2].addr.host = "10.0.0.2"
    /\ discarded = {1}
    /\ Len(returned) = 1
    /\ returned[1].id = 2
    /\ rlIn = {"10.0.0.1"}

\* ------------------------------------------- properties of a changing limiter
\* C11: a Read entered while the staging buffer holds bytes makes no read on
\* the underlying connection, also when In(host) gave a limiter while the
\* bytes were staged and gives none now; what was delivered, followed by what
\* is staged, is then what was taken from the connection.
StagedFirst ==
    /\ (sconn.type = "serverConn" /\ Len(R.rbuf0) > 0) => R.ios = 0
    /\ R.pc = "idle" => delivered \o rbuf = consumed

\* C18: when the entry of the host in the RateLimiter is added or removed by
\* another flow between the two lookups of a call, Read and Write still never
\* call Wait on an absent limiter.
WaitNeverNil ==
    /\ R.pc # "panic"
    /\ W.pc # "panic"

EgressConformance ==
    OutLimited =>
        /\ W.pc = "write" => /\ W.waits = W.ios + 1
                             /\ W.req = Len(W.b)
                             /\ W.grant <= W.req
        /\ W.pc # "write" => W.waits = W.ios
        /\ W.ios > 0 =>
              LET before == Len(W.accepted) - W.un
              IN  W.issued[W.ios] =
                    SubSeq(W.orig, before + 1,
                           before + (IF W.pc = "write" THEN Len(W.issued[W.ios])
                                     ELSE W.grant))
        /\ Len(W.issued) = W.ios
        /\ SumLen(W.issued) <= W.gsum
        /\ W.pc # "write" => SumLen(W.issued) = W.gsum

\* C13 witness: after a first chunk of one byte, Wait was asked for the one
\* byte that remains and granted it
EgressConformanceWitness ==
    /\ OutLimited
    /\ W.pc = "write"
    /\ W.ios = 1
    /\ W.issued = <<<<1>>>>
    /\ W.req = 1
    /\ W.grant = 1
    /\ W.gsum = 2

\* ---------------------------------------------- further datagram properties
\* a udpConn over a connection that implements every UDP extension
FullUdp == pconn.type = "udpConn" /\ pconn.PacketConn.caps = AllCaps

\* C14: on a udpConn whose underlying connection implements the UDP
\* extensions, ReadFrom, ReadFromUDP and ReadMsgUDP take the decision of
\* packetConn.ReadFrom (a datagram is returned iff its source host has no
\* ingress limiter or the grant equals its size, else it is discarded and the
\* next one read), and WriteTo, WriteToUDP and WriteMsgUDP take the decision
\* of packetConn.WriteTo (no underlying write and (len(b), nil) iff an egress
\* limiter granted less than len(b), else one underlying write of the whole
\* datagram whose result is returned unchanged).
UdpSamePolicy ==
    FullUdp =>
        /\ P.err # "unsupported" /\ last.err # "unsupported"
        /\ P.pc \in {"idle", "op", "probe", "read", "chk", "get", "wait", "ret"}
        /\ (P.pc = "ret" /\ P.err = "nil") =>
              /\ P.d.id = Len(arrived)
              /\ P.d.id \notin discarded
              /\ IF HasIn(P.d.addr)
                 THEN P.waits >= 1 /\ P.grant = P.n /\ ~P.short
                 ELSE P.grant = 0 /\ ~P.short
        /\ (P.pc = "ret" /\ P.err # "nil") => (P.err = "err" /\ erred)
        /\ (P.pc = "read" /\ P.ios > 0) =>
              /\ P.short
              /\ HasIn(P.d.addr)
              /\ P.d.id \in discarded
              /\ P.ios = P.waits
        /\ \A i \in 1..Len(returned) :
              /\ returned[i].id \notin discarded
              /\ HasIn(returned[i].addr) => returned[i].grant = returned[i].size
        /\ \A i \in 1..Len(arrived) :
              \/ i \in discarded
              \/ \E j \in 1..Len(returned) : returned[j].id = i
              \/ (i = P.d.id /\ P.pc \in {"chk", "get", "wait", "ret"})
        /\ (P.pc = "op" /\ last.op \in {"WriteTo", "WriteToUDP", "WriteMsgUDP"}) =>
              /\ last.short => HasOut(last.addr)
              /\ last.waits = IF HasOut(last.addr) THEN 1 ELSE 0
              /\ IF last.short
                 THEN last.ios = 0 /\ last.n = last.len /\ last.err = "nil"
                 ELSE /\ last.ios = 1
                      /\ last.wlen = last.len
                      /\ last.n = last.un
                      /\ last.err = last.uerr

\* C14 witness: ReadMsgUDP discarded the first datagram of a limited host on
\* a short grant and is returning the second one, granted in full
UdpSamePolicyWitness ==
    /\ FullUdp
    /\ P.op = "ReadMsgUDP"
    /\ P.pc = "ret"
    /\ P.err = "nil"
    /\ HasIn(P.d.addr)
    /\ discarded = {1}
    /\ P.d.id = 2
    /\ P.n = 100
    /\ P.grant = 100

\* C15: on a host that has an ingress limiter at every call, the bytes Read
\* has returned to its caller, over all calls and also over calls whose
\* underlying Read gave bytes together with an error, never exceed the bytes
\* the Wait calls of Read have granted.
IngressConformance ==
    InLimited => Len(delivered) <= inGranted

\* C16: on a host with an egress limiter whose every Wait grants at least one
\* byte, and with underlying writes that fail or accept at least one byte, a
\* Write that was entered returns; it makes at most len(b) Wait calls, each
\* Wait finding the buffer shorter by at least the number of Waits before it;
\* and it leaves the loop only on an underlying write error or with the
\* buffer empty.
WriteTerminates ==
    /\ [](W.pc \in {"wait", "write", "ret"} => W.waits <= Len(W.orig))
    /\ [](W.pc = "wait" => (Len(W.b) > 0 /\ W.waits + Len(W.b) <= Len(W.orig)))
    /\ [](W.pc = "ret" => (W.uerr # "nil" \/ Len(W.b) = 0))
    /\ [](W.pc # "panic")
    /\ (W.pc = "chk") ~> (W.pc = "ret")

\* C16 witness: a Write of three bytes returned after three Waits of one byte
WriteTerminatesWitness ==
    /\ OutLimited
    /\ W.pc = "ret"
    /\ Len(W.orig) = 3
    /\ W.waits = 3
    /\ W.err = "nil"
    /\ W.n = 3

\* the datagram the call holds is admitted: its source host has no ingress
\* limiter, or the limiter granted its whole size
Admitted == ~HasIn(P.d.addr) \/ (P.waits > 0 /\ ~P.short /\ P.grant = P.n)

\* C17: a ReadFrom call on a packetConn returns only when an underlying read
\* has failed or has given a datagram that is admitted, and, the underlying
\* connection yielding, it does return; every datagram it discards is
\* followed by exactly one more underlying read in the same call (the reads
\* of a call are its discards plus one); and every datagram read is decided
\* at once: returned if admitted, discarded if not.
DgramReadLive ==
    /\ [](P.pc \in {"chk", "get", "wait", "ret"} => P.ios = P.disc + 1)
    /\ [](P.pc = "read" => P.ios = P.disc)
    /\ [](P.pc = "ret" => IF P.err = "nil" THEN Admitted /\ P.d.id = Len(arrived)
                                           ELSE P.err = "err" /\ erred)
    /\ [](P.pc = "read" /\ P.disc > 0 => (HasIn(P.d.addr) /\ P.short))
    /\ [](P.disc <= P.waits /\ P.pc # "panic")
    /\ (P.pc \in {"chk", "get", "wait"}) ~> (P.pc \in {"read", "ret"})
    /\ (P.pc = "read") ~> (P.pc = "ret")
    /\ (P.pc = "ret") ~> (P.pc = "idle")

\* C17 witness: the call discarded the first datagram, read once more and is
\* returning the second datagram, granted in full
DgramReadLiveWitness ==
    /\ pconn.type = "packetConn"
    /\ P.pc = "ret"
    /\ P.err = "nil"
    /\ P.disc = 1
    /\ P.ios = 2
    /\ HasIn(P.d.addr)
    /\ P.grant = P.n
    /\ P.n = 50

====
